---- MODULE Spec2Model ----
(***************************************************************************)
(* Bloom filter variants of rust-bloomfilter-tests: the unfolded filter    *)
(* Bloom<M, K> (src/main.rs), the folded filter Folded<F, S, K>            *)
(* (src/folded.rs) and the iterator adaptors (src/iterators.rs).           *)
(*                                                                         *)
(* xxh3_64_with_seed is an external hash.  An element is modelled by the   *)
(* hash values the library returns for it: element e is the sequence       *)
(* e[1], e[2], ... with e[seed + 1] = xxh3_64_with_seed(e, seed).  Which   *)
(* sequence an element has is left open (every sequence over HashVals is   *)
(* some element), but it is fixed per element, as the hash is a function.  *)
(***************************************************************************)
EXTENDS Integers, Sequences, FiniteSets

VARIABLES
    bloom,      \* the Bloom<M, K> instance: [M, K, bytes]
    folded,     \* the Folded<F, S, K> instance: [F, S, K, bytes]
    elem,       \* the element under observation (its hash values per seed)
    hist,       \* what the caller has done with elem so far
    sat,        \* the frame of Bloom::saturate: [pc, commits, entryOver]
    sparse,     \* the SparseArray values of one build_expected/folded run
    rs,         \* a BloomIndicesXXH3RejectionSampling / RejectionSampling run
    ds,         \* a DistinctSampling / BloomIndicesDistinctXXH3 run
    yb          \* a YieldBits run

vars == <<bloom, folded, elem, hist, sat, sparse, rs, ds, yb>>

\* A component that takes no part in the specification at hand.
Unused == [pc |-> "unused"]

(***************************************************************************)
(* Bounds of the model.                                                    *)
(***************************************************************************)
\* Width of a hash value in the model (the library's is 64 bits).
HashBits == 5
\* Largest byte size M of an unfolded filter.
MaxM == 3
\* Largest number K of hash rounds of a filter.
MaxK == 2
\* Draws a rejection loop may throw away before the model stops following it.
MaxRejects == 1
\* Number of elements other than elem the caller may add, and how many adds.
NumOthers == 4
MaxAdds == 1
\* Largest byte size M of a filter that is saturated, the ceiling of
\* saturate() at that size (the code's 1019 is the ceiling of its 2048-bit
\* filter), and the number of candidate elements the saturation stream holds.
SatMaxM == 2
Ceiling == 10
NumCandidates == 8
\* Largest fold factor F and byte size S of a folded filter that takes
\* inserts, and largest number K of hash rounds of a folded filter.
MaxF == 1
MaxS == 1
FoldMaxK == 3
\* Largest fold factor F of a single fold.
FoldMaxF == 2
\* Number of hash values an index iterator is followed over.
MaxDraws == 3
\* Number of hash values a rejection-sampling iterator is followed over, and
\* their width in bits: wider than the mask of the largest filter, so that the
\* mask cuts bits off.
RsDraws == 2
RsHashBits == 6
\* Width of a word fed to YieldBits in the model (the code's usize is 64 bits
\* wide), and the largest number of words of an input.
WordBits == 5
MaxWords == 2

(***************************************************************************)
(* Machine arithmetic.                                                     *)
(***************************************************************************)
RECURSIVE Pow2(_)
Pow2(n) == IF n = 0 THEN 1 ELSE 2 * Pow2(n - 1)

\* x << n and x >> n on unsigned integers (no overflow at the model's sizes).
Shl(x, n) == x * Pow2(n)
Shr(x, n) == x \div Pow2(n)

RECURSIVE BitAnd(_, _)
BitAnd(a, b) ==
    IF a = 0 \/ b = 0 THEN 0
    ELSE (a % 2) * (b % 2) + 2 * BitAnd(a \div 2, b \div 2)

RECURSIVE BitOr(_, _)
BitOr(a, b) ==
    IF a = 0 THEN b
    ELSE IF b = 0 THEN a
    ELSE (IF a % 2 = 1 \/ b % 2 = 1 THEN 1 ELSE 0) + 2 * BitOr(a \div 2, b \div 2)

\* u8::count_ones / usize::count_ones
RECURSIVE CountOnesInt(_)
CountOnesInt(n) == IF n = 0 THEN 0 ELSE (n % 2) + CountOnesInt(n \div 2)

\* usize::next_power_of_two: the smallest power of two >= n
RECURSIVE NextPowerOfTwoFrom(_, _)
NextPowerOfTwoFrom(n, p) == IF p >= n THEN p ELSE NextPowerOfTwoFrom(n, 2 * p)
NextPowerOfTwo(n) == NextPowerOfTwoFrom(n, 1)

(***************************************************************************)
(* The hash.                                                               *)
(***************************************************************************)
HashVals == 0 .. (Pow2(HashBits) - 1)

\* The elements that answer n seeds.
ElementsOfLen(n) == [1 .. n -> HashVals]

\* xxh3_64_with_seed(element, seed)
Xxh3(element, seed) == element[seed + 1]

\* The o-th element other than elem: hash values 7o, 7o + 1, 7o + 2, ...
OtherElement(o, n) == [i \in 1 .. n |-> (7 * o + i - 1) % Pow2(HashBits)]

(***************************************************************************)
(* Bloom<M, K>: src/main.rs.                                               *)
(***************************************************************************)
\* Bloom::new
BloomNew(M, K) == [M |-> M, K |-> K, bytes |-> [i \in 0 .. M - 1 |-> 0]]

\* The bitmask taken as max - 1, right only when max is a power of two.
BitmaskOfMax(M) == M * 8 - 1

\* BloomIndicesXXH3RejectionSampling::from: the bitmask field
Bitmask(M) ==
    LET max == M * 8
    IN  (IF CountOnesInt(max) = 1 THEN max ELSE NextPowerOfTwo(max)) - 1

\* One hash draw of BloomIndicesXXH3RejectionSampling::next
MaskedHash(M, element, seed) == BitAnd(Xxh3(element, seed), Bitmask(M))

\* BloomIndicesXXH3RejectionSampling::next from the iterator state `seed`:
\* the index it returns and the seed it leaves.  ok is FALSE when the loop runs
\* past the hash values the model knows of the element.
RECURSIVE RejectionNext(_, _, _)
RejectionNext(M, element, seed) ==
    IF seed >= Len(element) THEN [ok |-> FALSE, index |-> 0, seed |-> seed]
    ELSE LET index == MaskedHash(M, element, seed)
         IN  IF index >= M * 8
             THEN RejectionNext(M, element, seed + 1)
             ELSE [ok |-> TRUE, index |-> index, seed |-> seed + 1]

\* BloomIndicesXXH3RejectionSampling::<M>::from(element).take(k), started at seed
RECURSIVE TakeFrom(_, _, _, _)
TakeFrom(M, element, seed, k) ==
    IF k = 0 THEN [ok |-> TRUE, indices |-> <<>>, seed |-> seed]
    ELSE LET n == RejectionNext(M, element, seed)
         IN  IF ~n.ok THEN [ok |-> FALSE, indices |-> <<>>, seed |-> n.seed]
             ELSE LET rest == TakeFrom(M, element, n.seed, k - 1)
                  IN  [ok |-> rest.ok, indices |-> <<n.index>> \o rest.indices,
                       seed |-> rest.seed]

BloomIndices(M, K, element) == TakeFrom(M, element, 0, K)

\* The elements of the model for a Bloom<M, K>: the hash values that K indices
\* consume, no more and no fewer.
BloomElements(M, K) ==
    UNION { { e \in ElementsOfLen(n) :
                LET t == BloomIndices(M, K, e) IN t.ok /\ t.seed = n }
            : n \in K .. K + MaxRejects }

\* set_bit storing the mask instead of or-ing it in (`=` for `|=`).
SetBitAssign(bytes, index) ==
    [bytes EXCEPT ![index \div 8] = Shl(1, index % 8)]

\* Bloom::set_bit
SetBit(bytes, index) ==
    LET byte_index == index \div 8
        bit_index == index % 8
    IN  [bytes EXCEPT ![byte_index] = BitOr(@, Shl(1, bit_index))]

\* Bloom::test_bit
TestBit(bytes, index) ==
    LET byte_index == index \div 8
        bit_index == index % 8
    IN  BitAnd(bytes[byte_index], Shl(1, bit_index)) # 0

RECURSIVE SetBits(_, _)
SetBits(bytes, indices) ==
    IF indices = <<>> THEN bytes
    ELSE SetBits(SetBit(bytes, Head(indices)), Tail(indices))

\* Bloom::add: the bytes after self.add(element)
Add(b, element) == SetBits(b.bytes, BloomIndices(b.M, b.K, element).indices)

RECURSIVE AllSet(_, _)
AllSet(bytes, indices) ==
    IF indices = <<>> THEN TRUE
    ELSE IF ~TestBit(bytes, Head(indices)) THEN FALSE
    ELSE AllSet(bytes, Tail(indices))

\* Bloom::has
Has(b, element) == AllSet(b.bytes, BloomIndices(b.M, b.K, element).indices)

\* Bloom::count_ones
RECURSIVE CountOnesFrom(_, _)
CountOnesFrom(bytes, i) ==
    IF i \notin DOMAIN bytes THEN 0
    ELSE CountOnesInt(bytes[i]) + CountOnesFrom(bytes, i + 1)
CountOnes(b) == CountOnesFrom(b.bytes, 0)

(***************************************************************************)
(* SpecBloom: a caller adding elements to one Bloom<M, K> and asking for   *)
(* elem.                                                                   *)
(***************************************************************************)
NoHistory == [pc |-> "bloom", inserted |-> FALSE, others |-> 0, since |-> 0, has |-> "none"]

InitBloom ==
    /\ \E M \in 1 .. MaxM, K \in 1 .. MaxK :
          /\ bloom = BloomNew(M, K)
          /\ elem \in BloomElements(M, K)
    /\ hist = NoHistory
    /\ folded = Unused /\ sat = Unused /\ sparse = Unused
    /\ rs = Unused /\ ds = Unused /\ yb = Unused

\* bloom.add(elem)
BloomAdd ==
    /\ ~hist.inserted
    /\ bloom' = [bloom EXCEPT !.bytes = Add(bloom, elem)]
    /\ hist' = [hist EXCEPT !.inserted = TRUE, !.has = "none"]
    /\ UNCHANGED <<folded, elem, sat, sparse, rs, ds, yb>>

\* bloom.add(other) for another element
BloomAddOther ==
    /\ hist.others < MaxAdds
    /\ \E o \in 0 .. NumOthers - 1 :
          LET other == OtherElement(o, bloom.K + MaxRejects)
          IN  /\ BloomIndices(bloom.M, bloom.K, other).ok
              /\ bloom' = [bloom EXCEPT !.bytes = Add(bloom, other)]
    /\ hist' = [hist EXCEPT !.others = @ + 1,
                            !.since = IF hist.inserted THEN @ + 1 ELSE @,
                            !.has = "none"]
    /\ UNCHANGED <<folded, elem, sat, sparse, rs, ds, yb>>

\* bloom.has(elem)
BloomHas ==
    /\ hist' = [hist EXCEPT !.has = IF Has(bloom, elem) THEN "true" ELSE "false"]
    /\ UNCHANGED <<bloom, folded, elem, sat, sparse, rs, ds, yb>>

NextBloom == BloomAdd \/ BloomAddOther \/ BloomHas

SpecBloom == InitBloom /\ [][NextBloom]_vars

\* C1: once elem has been added to the unfolded filter, has(elem) is true, in
\* the state right after the add and in every state later adds lead to; no
\* has(elem) call made after the add has returned false.
C1_NoFalseNegative ==
    hist.pc = "bloom" /\ hist.inserted =>
        Has(bloom, elem) /\ hist.has # "false"

\* elem took a rejected draw, was added, another element was added after it,
\* and has(elem) has answered true.
C1_Witness ==
    /\ hist.pc = "bloom" /\ hist.inserted /\ hist.since >= 1
    /\ hist.has = "true"
    /\ Len(elem) > bloom.K

(***************************************************************************)
(* SpecSat: Bloom::saturate on a filter with some contents.  The blake3    *)
(* stream is external: each xof.fill(&mut buffer) yields some candidate    *)
(* element.  One step per turn of the loop.                                *)
(***************************************************************************)
\* The c-th candidate element of the stream: hash values 2c, 2c + 1, 2c + 2, ...
Candidate(c, n) == [i \in 1 .. n |-> (2 * c + i - 1) % Pow2(HashBits)]

\* Filter contents with the lowest n bits set.
Prefilled(M, n) ==
    [i \in 0 .. M - 1 |->
        IF n >= 8 * (i + 1) THEN 255
        ELSE IF n <= 8 * i THEN 0
        ELSE Pow2(n - 8 * i) - 1]

InitSat ==
    /\ \E M \in 1 .. SatMaxM, n \in 0 .. SatMaxM * 8 :
          /\ n <= M * 8
          /\ bloom = [M |-> M, K |-> MaxK, bytes |-> Prefilled(M, n)]
    /\ sat = [pc |-> "idle", committed |-> FALSE, entryOver |-> FALSE, buffer |-> -1]
    /\ folded = Unused /\ elem = Unused /\ hist = Unused /\ sparse = Unused
    /\ rs = Unused /\ ds = Unused /\ yb = Unused

\* bloom.saturate() is called: the stream is keyed with the current bytes.
SatEnter ==
    /\ sat.pc = "idle"
    /\ sat' = [sat EXCEPT !.pc = "loop", !.entryOver = CountOnes(bloom) > Ceiling]
    /\ UNCHANGED <<bloom, folded, elem, hist, sparse, rs, ds, yb>>

\* The turn of the loop written without the clone: the candidate is added to
\* the filter itself before the count is tested.
SatIterInPlace(c) ==
    /\ sat.pc = "loop"
    /\ LET buffer == Candidate(c, bloom.K + MaxRejects)
           added == [bloom EXCEPT !.bytes = Add(bloom, buffer)]
       IN  /\ BloomIndices(bloom.M, bloom.K, buffer).ok
           /\ bloom' = added
           /\ IF CountOnes(added) > Ceiling
              THEN sat' = [sat EXCEPT !.pc = "returned", !.buffer = c]
              ELSE sat' = [sat EXCEPT !.committed = TRUE, !.buffer = c]
    /\ UNCHANGED <<folded, elem, hist, sparse, rs, ds, yb>>

\* One turn of the loop with candidate c in the buffer: clone, add, then
\* return or commit.
SatIter(c) ==
    /\ sat.pc = "loop"
    /\ LET buffer == Candidate(c, bloom.K + MaxRejects)
           cloned == [bloom EXCEPT !.bytes = Add(bloom, buffer)]
       IN  /\ BloomIndices(bloom.M, bloom.K, buffer).ok
           /\ IF CountOnes(cloned) > Ceiling
              THEN /\ sat' = [sat EXCEPT !.pc = "returned", !.buffer = c]
                   /\ bloom' = bloom
              ELSE /\ sat' = [sat EXCEPT !.committed = TRUE, !.buffer = c]
                   /\ bloom' = [bloom EXCEPT !.bytes = cloned.bytes]
    /\ UNCHANGED <<folded, elem, hist, sparse, rs, ds, yb>>

SatLoop == \E c \in 0 .. NumCandidates - 1 : SatIter(c)

NextSat == SatEnter \/ SatLoop

SpecSat == InitSat /\ [][NextSat]_vars

\* C4 as stated: every state committed inside the loop and the state at return
\* have count_ones() <= Ceiling, whatever the contents on entry.
C4_NeverAboveCeiling ==
    sat.pc \in {"loop", "returned"} /\ (sat.committed \/ sat.pc = "returned") =>
        CountOnes(bloom) <= Ceiling

\* C4 amended: every state committed inside the loop has count_ones() <=
\* Ceiling, and so has the state at return when the contents on entry had; the
\* turn that returns leaves the filter as it was (the trial copy is discarded).
C4_CeilingKept ==
    [][ /\ (sat'.pc \in {"loop", "returned"} /\ (sat'.committed \/ ~sat'.entryOver)
               => CountOnes(bloom') <= Ceiling)
        /\ (sat.pc = "loop" /\ sat'.pc = "returned" => bloom' = bloom) ]_vars

\* saturate() has committed candidates and returned one short of the ceiling:
\* the last candidate would have taken the count past it.
C4_Witness ==
    /\ sat.pc = "returned" /\ sat.committed /\ ~sat.entryOver
    /\ CountOnes(bloom) = Ceiling - 1

\* C5: saturate() terminates.  A turn of the loop that neither returns nor
\* changes the filter leaves the loop where it was, so termination needs, in
\* every state of the loop, a candidate whose turn does one or the other.
C5_SaturateCanReturn ==
    sat.pc = "loop" =>
        \E c \in 0 .. NumCandidates - 1 :
            LET cloned == [bloom EXCEPT
                              !.bytes = Add(bloom, Candidate(c, bloom.K + MaxRejects))]
            IN  CountOnes(cloned) > Ceiling \/ cloned.bytes # bloom.bytes

(***************************************************************************)
(* Folded<F, S, K> and SparseArray: src/folded.rs.  A SparseArray is its   *)
(* indices_set vector.                                                     *)
(***************************************************************************)
\* Folded::new
FoldedNew(F, S, K) == [F |-> F, S |-> S, K |-> K, bytes |-> [i \in 0 .. S - 1 |-> 0]]

\* SparseArray::new_with_capacity
SparseNew == <<>>

\* Position of the first entry equal to index, 0 when there is none
\* (iter().enumerate().find(..)).
RECURSIVE FindFrom(_, _, _)
FindFrom(indices_set, index, i) ==
    IF i > Len(indices_set) THEN 0
    ELSE IF indices_set[i] = index THEN i
    ELSE FindFrom(indices_set, index, i + 1)

\* Vec::remove(index_index), positions counted from 1
Remove(indices_set, i) ==
    SubSeq(indices_set, 1, i - 1) \o SubSeq(indices_set, i + 1, Len(indices_set))

\* SparseArray::set_bit
SparseSetBit(indices_set, index) ==
    IF FindFrom(indices_set, index, 1) # 0 THEN indices_set
    ELSE Append(indices_set, index)

\* flip_bit that never removes: an entry already there is left in place.
SparseFlipKeeps(indices_set, index) == SparseSetBit(indices_set, index)

\* SparseArray::flip_bit
SparseFlipBit(indices_set, index) ==
    LET index_index == FindFrom(indices_set, index, 1)
    IN  IF index_index # 0 THEN Remove(indices_set, index_index)
        ELSE Append(indices_set, index)

\* SparseArray::folded: the loop over self.indices_set from position i on
RECURSIVE FoldedFrom(_, _, _, _)
FoldedFrom(indices_set, times, i, result) ==
    IF i > Len(indices_set) THEN result
    ELSE FoldedFrom(indices_set, times, i + 1,
                    SparseFlipBit(result, Shr(indices_set[i], times)))

SparseFolded(indices_set, times) == FoldedFrom(indices_set, times, 1, SparseNew)

\* Folded::build_expected: the loop over seed from `seed` on
RECURSIVE BuildFrom(_, _, _, _)
BuildFrom(f, hash, seed, expected) ==
    IF seed >= f.K THEN expected
    ELSE LET index == Xxh3(hash, seed) % Shl(f.S * 8, f.F)
         IN  BuildFrom(f, hash, seed + 1, SparseSetBit(expected, index))

BuildExpected(f, hash) == BuildFrom(f, hash, 0, SparseNew)

\* Self::build_expected(hash).folded(F).indices_set
FoldedIndices(f, hash) == SparseFolded(BuildExpected(f, hash), f.F)

\* Folded::set_bit storing the mask instead of or-ing it in (`=` for `|=`).
FoldedSetBitAssign(bytes, index) ==
    [bytes EXCEPT ![index \div 8] = Shl(1, index % 8)]

\* Folded::set_bit
FoldedSetBit(bytes, index) ==
    LET byte_index == index \div 8
        bit_index == index % 8
    IN  [bytes EXCEPT ![byte_index] = BitOr(@, Shl(1, bit_index))]

\* Folded::test_bit
FoldedTestBit(bytes, index) ==
    LET byte_index == index \div 8
        bit_index == index % 8
    IN  BitAnd(bytes[byte_index], Shl(1, bit_index)) # 0

RECURSIVE FoldedSetBits(_, _)
FoldedSetBits(bytes, indices) ==
    IF indices = <<>> THEN bytes
    ELSE FoldedSetBits(FoldedSetBit(bytes, Head(indices)), Tail(indices))

\* Folded::insert: the bytes after self.insert(hash)
FoldedInsert(f, hash) == FoldedSetBits(f.bytes, FoldedIndices(f, hash))

RECURSIVE FoldedAllSet(_, _)
FoldedAllSet(bytes, indices) ==
    IF indices = <<>> THEN TRUE
    ELSE IF ~FoldedTestBit(bytes, Head(indices)) THEN FALSE
    ELSE FoldedAllSet(bytes, Tail(indices))

\* has testing the bit of every wide position, cancelled or not.
FoldedHasEveryWide(f, hash) ==
    \A i \in DOMAIN BuildExpected(f, hash) :
        FoldedTestBit(f.bytes, Shr(BuildExpected(f, hash)[i], f.F))

\* has answering false when there is no bit to test.
FoldedHasSomeBit(f, hash) ==
    /\ FoldedIndices(f, hash) # <<>>
    /\ FoldedAllSet(f.bytes, FoldedIndices(f, hash))

\* Folded::has
FoldedHas(f, hash) == FoldedAllSet(f.bytes, FoldedIndices(f, hash))

(***************************************************************************)
(* SpecFolded: a caller inserting elements into one Folded<F, S, K> and    *)
(* asking for elem.                                                        *)
(***************************************************************************)
InitFolded ==
    /\ \E F \in 0 .. MaxF, S \in 1 .. MaxS, K \in 1 .. FoldMaxK :
          /\ folded = FoldedNew(F, S, K)
          /\ elem \in ElementsOfLen(K)
    /\ hist = [NoHistory EXCEPT !.pc = "folded"]
    /\ bloom = Unused /\ sat = Unused /\ sparse = Unused
    /\ rs = Unused /\ ds = Unused /\ yb = Unused

\* filter.insert(&elem)
FoldedInsertElem ==
    /\ ~hist.inserted
    /\ folded' = [folded EXCEPT !.bytes = FoldedInsert(folded, elem)]
    /\ hist' = [hist EXCEPT !.inserted = TRUE, !.has = "none"]
    /\ UNCHANGED <<bloom, elem, sat, sparse, rs, ds, yb>>

\* filter.insert(&other) for another element
FoldedInsertOther ==
    /\ hist.others < MaxAdds
    /\ \E o \in 0 .. NumOthers - 1 :
          folded' = [folded EXCEPT
                        !.bytes = FoldedInsert(folded, OtherElement(o, folded.K))]
    /\ hist' = [hist EXCEPT !.others = @ + 1,
                            !.since = IF hist.inserted THEN @ + 1 ELSE @,
                            !.has = "none"]
    /\ UNCHANGED <<bloom, elem, sat, sparse, rs, ds, yb>>

\* filter.has(&elem)
FoldedHasElem ==
    /\ hist' = [hist EXCEPT
                   !.has = IF FoldedHas(folded, elem) THEN "true" ELSE "false"]
    /\ UNCHANGED <<bloom, folded, elem, sat, sparse, rs, ds, yb>>

NextFolded == FoldedInsertElem \/ FoldedInsertOther \/ FoldedHasElem

SpecFolded == InitFolded /\ [][NextFolded]_vars

\* The wide positions of an element, as a set, and the physical positions that
\* an even, non-zero number of them fold to.
WidePositions(f, hash) ==
    { Xxh3(hash, seed) % (f.S * 8 * Pow2(f.F)) : seed \in 0 .. f.K - 1 }

FoldsTo(f, hash, q) == { p \in WidePositions(f, hash) : p \div Pow2(f.F) = q }

Cancelled(f, hash) ==
    { q \in 0 .. f.S * 8 - 1 :
        FoldsTo(f, hash, q) # {} /\ Cardinality(FoldsTo(f, hash, q)) % 2 = 0 }

OddFolds(f, hash) ==
    { q \in 0 .. f.S * 8 - 1 : Cardinality(FoldsTo(f, hash, q)) % 2 = 1 }

\* C2: once elem has been inserted into the folded filter, has(elem) is true,
\* right after the insert and after every later insert; no has(elem) call made
\* after the insert has returned false.
C2_NoFalseNegativeFolded ==
    hist.pc = "folded" /\ hist.inserted =>
        FoldedHas(folded, elem) /\ hist.has # "false"

\* A folded filter (F >= 1): elem, with a clashing pair and a position of its
\* own, was inserted, another element set a further bit after it, and
\* has(elem) has answered true.
C2_Witness ==
    /\ hist.pc = "folded" /\ folded.F >= 1
    /\ hist.inserted /\ hist.since >= 1 /\ hist.has = "true"
    /\ Cancelled(folded, elem) # {} /\ OddFolds(folded, elem) # {}
    /\ \E q \in 0 .. folded.S * 8 - 1 :
          FoldedTestBit(folded.bytes, q) /\ q \notin OddFolds(folded, elem)

C10_FreshReportsAbsent ==
    hist.pc = "folded" /\ ~hist.inserted /\ hist.others = 0 =>
        ~FoldedHas(folded, elem) /\ hist.has # "true"

\* C10 amended: has(elem) on a freshly constructed filter is false exactly when
\* some physical position has an odd number of elem's wide positions folding
\* to it, which is so for every element when F = 0 or K = 1; an element whose
\* wide positions all cancel is reported present by the empty filter.
C10_FreshAbsentIffOdd ==
    hist.pc = "folded" /\ ~hist.inserted /\ hist.others = 0 =>
        /\ FoldedHas(folded, elem) <=> OddFolds(folded, elem) = {}
        /\ hist.has = "true" => OddFolds(folded, elem) = {}
        /\ hist.has = "false" => OddFolds(folded, elem) # {}
        /\ folded.F = 0 \/ folded.K = 1 => ~FoldedHas(folded, elem)

\* has(elem) has answered false on a fresh filter with F >= 1, for an element
\* with a clashing pair and a position that nothing cancels.
C10_Witness ==
    /\ hist.pc = "folded" /\ ~hist.inserted /\ hist.others = 0
    /\ folded.F >= 1 /\ folded.K >= 2
    /\ hist.has = "false"
    /\ Cancelled(folded, elem) # {} /\ OddFolds(folded, elem) # {}

(***************************************************************************)
(* SpecFold: one run of build_expected(hash).folded(F), a step for each of *)
(* the two calls.                                                          *)
(***************************************************************************)
InitFold ==
    /\ \E F \in 0 .. FoldMaxF, S \in 1 .. MaxS, K \in 1 .. FoldMaxK :
          /\ folded = FoldedNew(F, S, K)
          /\ elem \in ElementsOfLen(K)
    /\ sparse = [pc |-> "start", expected |-> SparseNew, result |-> SparseNew]
    /\ bloom = Unused /\ hist = Unused /\ sat = Unused
    /\ rs = Unused /\ ds = Unused /\ yb = Unused

\* Self::build_expected(hash)
FoldBuild ==
    /\ sparse.pc = "start"
    /\ sparse' = [sparse EXCEPT !.pc = "built",
                                !.expected = BuildExpected(folded, elem)]
    /\ UNCHANGED <<bloom, folded, elem, hist, sat, rs, ds, yb>>

\* expected.folded(F)
FoldFold ==
    /\ sparse.pc = "built"
    /\ sparse' = [sparse EXCEPT !.pc = "folded",
                                !.result = SparseFolded(sparse.expected, folded.F)]
    /\ UNCHANGED <<bloom, folded, elem, hist, sat, rs, ds, yb>>

NextFold == FoldBuild \/ FoldFold

SpecFold == InitFold /\ [][NextFold]_vars

\* A sequence in which no value occurs twice.
NoRepeat(seq) == \A i, j \in DOMAIN seq : seq[i] = seq[j] => i = j

Values(seq) == { seq[i] : i \in DOMAIN seq }

\* C8: the wide index set holds each wide position of the element once; the
\* fold result holds a physical position q, once, exactly when an odd number
\* of distinct wide positions p have p >> F = q, and every q in it is below
\* S * 8; insert and has work on that very result.
C8_FoldIsParity ==
    /\ sparse.pc \in {"built", "folded"} =>
          /\ NoRepeat(sparse.expected)
          /\ Values(sparse.expected) = WidePositions(folded, elem)
    /\ sparse.pc = "folded" =>
          /\ NoRepeat(sparse.result)
          /\ Values(sparse.result) = OddFolds(folded, elem)
          /\ \A i \in DOMAIN sparse.result : sparse.result[i] < folded.S * 8
          /\ FoldedIndices(folded, elem) = sparse.result

\* A fold with F = 2 in which three distinct wide positions meet in one
\* physical position, which is in the result.
C8_Witness ==
    /\ sparse.pc = "folded" /\ folded.F = 2
    /\ \E q \in Values(sparse.result) : Cardinality(FoldsTo(folded, elem, q)) = 3

(***************************************************************************)
(* SpecRS: one rejection-sampling iterator followed call by call, either   *)
(* BloomIndicesXXH3RejectionSampling::<M>::from(elem) (src/main.rs) or     *)
(* RejectionSampling::accept_smaller(iter, M * 8) over the hash values of  *)
(* elem (src/iterators.rs).                                                *)
(***************************************************************************)
\* RejectionSampling::next over the values of `iter` from position pos
\* (counted from 0): the value it returns and the position it leaves; ok is
\* FALSE when the underlying iterator ends (None).
RECURSIVE AcceptSmallerNext(_, _, _)
AcceptSmallerNext(iter, max, pos) ==
    IF pos >= Len(iter) THEN [ok |-> FALSE, val |-> 0, pos |-> pos]
    ELSE LET val == iter[pos + 1]
         IN  IF val >= max THEN AcceptSmallerNext(iter, max, pos + 1)
             ELSE [ok |-> TRUE, val |-> val, pos |-> pos + 1]

InitRS ==
    /\ elem \in [1 .. RsDraws -> 0 .. (Pow2(RsHashBits) - 1)]
    /\ \E M \in 1 .. MaxM, kind \in {"bloom", "generic"} :
          rs = [pc |-> kind, M |-> M, seed |-> 0, yielded |-> <<>>, ended |-> FALSE]
    /\ bloom = Unused /\ folded = Unused /\ hist = Unused /\ sat = Unused
    /\ sparse = Unused /\ ds = Unused /\ yb = Unused

\* A call of BloomIndicesXXH3RejectionSampling::next that the known hash
\* values of elem suffice for.
RsNext ==
    /\ rs.pc = "bloom"
    /\ LET n == RejectionNext(rs.M, elem, rs.seed)
       IN  /\ n.ok
           /\ rs' = [rs EXCEPT !.seed = n.seed, !.yielded = Append(@, n.index)]
    /\ UNCHANGED <<bloom, folded, elem, hist, sat, sparse, ds, yb>>

\* A call of RejectionSampling::next
RjNext ==
    /\ rs.pc = "generic" /\ ~rs.ended
    /\ LET n == AcceptSmallerNext(elem, rs.M * 8, rs.seed)
       IN  rs' = [rs EXCEPT !.seed = n.pos,
                            !.yielded = IF n.ok THEN Append(@, n.val) ELSE @,
                            !.ended = ~n.ok]
    /\ UNCHANGED <<bloom, folded, elem, hist, sat, sparse, ds, yb>>

NextRS == RsNext \/ RjNext

SpecRS == InitRS /\ [][NextRS]_vars

\* The smallest power of two >= max, and a hash value cut to its low
\* log2(P) bits.
SmallestPowerOfTwo(max) ==
    CHOOSE p \in { Pow2(i) : i \in 0 .. max } :
        p >= max /\ \A i \in 0 .. max : Pow2(i) >= max => Pow2(i) >= p

Reduced(M, h) == h % SmallestPowerOfTwo(M * 8)

\* The entries of seq below max, in order.
RECURSIVE Below(_, _)
Below(seq, max) ==
    IF seq = <<>> THEN <<>>
    ELSE (IF Head(seq) < max THEN <<Head(seq)>> ELSE <<>>) \o Below(Tail(seq), max)

\* C7: what a rejection-sampling iterator has yielded is, in order, the
\* accepted ones among the draws it has consumed, each draw consumed once: for
\* BloomIndicesXXH3RejectionSampling the draws are the hash values of seeds
\* 0, 1, 2, ... cut to the low log2(P) bits, P the smallest power of two >=
\* M * 8, and a draw is accepted iff it is < M * 8; every yielded position is
\* < M * 8, and the draw consumed last by a call is the one it returned.
C7_RejectionSampling ==
    /\ rs.pc = "bloom" =>
          /\ rs.yielded =
                Below([i \in 1 .. rs.seed |-> Reduced(rs.M, elem[i])], rs.M * 8)
          /\ rs.seed > 0 => Reduced(rs.M, elem[rs.seed]) < rs.M * 8
    /\ rs.pc = "generic" =>
          /\ rs.yielded = Below(SubSeq(elem, 1, rs.seed), rs.M * 8)
          /\ rs.seed > 0 /\ ~rs.ended => elem[rs.seed] < rs.M * 8
    /\ rs.pc \in {"bloom", "generic"} =>
          /\ rs.seed <= Len(elem)
          /\ \A i \in DOMAIN rs.yielded : rs.yielded[i] < rs.M * 8

\* M * 8 = 24 is no power of two: the first draw was cut to its low 5 bits
\* and rejected for being in 24 .. 31, the second was cut and yielded.
C7_Witness ==
    /\ rs.pc = "bloom" /\ rs.M = 3
    /\ rs.seed = 2 /\ Len(rs.yielded) = 1
    /\ elem[1] >= 32 /\ Reduced(rs.M, elem[1]) >= rs.M * 8
    /\ elem[2] >= 32 /\ rs.yielded[1] = elem[2] - 32

(***************************************************************************)
(* SpecDistinct: one distinct-sampling iterator followed call by call,     *)
(* either DistinctSampling::distinct(iter) (src/iterators.rs) or           *)
(* BloomIndicesDistinctXXH3 (src/main.rs), both over the indices of        *)
(* BloomIndicesXXH3::<M>::from(elem).                                      *)
(***************************************************************************)
\* BloomIndicesXXH3::next at `seed`: the index it returns
ModuloIndex(M, element, seed) == Xxh3(element, seed) % (M * 8)

\* The indices BloomIndicesXXH3 yields for the known hash values of elem.
ModuloIndices(M, element) ==
    [i \in 1 .. Len(element) |-> ModuloIndex(M, element, i - 1)]

\* DistinctSampling::next that forgets to push the value it returns.
RECURSIVE DistinctNextForgets(_, _, _)
DistinctNextForgets(iter, used_values, pos) ==
    IF pos >= Len(iter) THEN [ok |-> FALSE, val |-> 0, pos |-> pos, used |-> used_values]
    ELSE LET val == iter[pos + 1]
         IN  IF FindFrom(used_values, val, 1) # 0
             THEN DistinctNextForgets(iter, used_values, pos + 1)
             ELSE [ok |-> TRUE, val |-> val, pos |-> pos + 1, used |-> used_values]

\* DistinctSampling::next over the values of `iter` from position pos: the
\* value it returns, the position and the used_values it leaves; ok is FALSE
\* when the underlying iterator ends (None).
RECURSIVE DistinctNext(_, _, _)
DistinctNext(iter, used_values, pos) ==
    IF pos >= Len(iter) THEN [ok |-> FALSE, val |-> 0, pos |-> pos, used |-> used_values]
    ELSE LET val == iter[pos + 1]
         IN  IF FindFrom(used_values, val, 1) # 0
             THEN DistinctNext(iter, used_values, pos + 1)
             ELSE [ok |-> TRUE, val |-> val, pos |-> pos + 1,
                   used |-> Append(used_values, val)]

\* BloomIndicesDistinctXXH3::next from `seed` with used_nums (a [bool; M],
\* indexed from 0): the index it returns, the seed and the used_nums it
\* leaves.  result is "some" for a returned index, "panic" when used_nums is
\* indexed out of range, and "unknown" when the loop runs past the hash values
\* the model knows of the element.
RECURSIVE BloomDistinctNext(_, _, _, _)
BloomDistinctNext(M, element, used_nums, seed) ==
    IF seed >= Len(element)
    THEN [result |-> "unknown", index |-> 0, seed |-> seed, used |-> used_nums]
    ELSE LET index == ModuloIndex(M, element, seed)
         IN  IF index \notin DOMAIN used_nums
             THEN [result |-> "panic", index |-> index, seed |-> seed + 1,
                   used |-> used_nums]
             ELSE IF used_nums[index]
             THEN BloomDistinctNext(M, element, used_nums, seed + 1)
             ELSE [result |-> "some", index |-> index, seed |-> seed + 1,
                   used |-> [used_nums EXCEPT ![index] = TRUE]]

InitDistinct ==
    /\ elem \in ElementsOfLen(MaxDraws)
    /\ \E M \in 1 .. MaxM, kind \in {"bloom", "generic"} :
          ds = [pc |-> kind, M |-> M, seed |-> 0, yielded |-> <<>>,
                used_values |-> <<>>, used_nums |-> [i \in 0 .. M - 1 |-> FALSE],
                ended |-> FALSE, panicked |-> FALSE]
    /\ bloom = Unused /\ folded = Unused /\ hist = Unused /\ sat = Unused
    /\ sparse = Unused /\ rs = Unused /\ yb = Unused

\* A call of DistinctSampling::next
DsNext ==
    /\ ds.pc = "generic" /\ ~ds.ended
    /\ LET n == DistinctNext(ModuloIndices(ds.M, elem), ds.used_values, ds.seed)
       IN  ds' = [ds EXCEPT !.seed = n.pos, !.used_values = n.used,
                            !.yielded = IF n.ok THEN Append(@, n.val) ELSE @,
                            !.ended = ~n.ok]
    /\ UNCHANGED <<bloom, folded, elem, hist, sat, sparse, rs, yb>>

\* A call of BloomIndicesDistinctXXH3::next that the known hash values of elem
\* suffice for.
BdNext ==
    /\ ds.pc = "bloom" /\ ~ds.panicked
    /\ LET n == BloomDistinctNext(ds.M, elem, ds.used_nums, ds.seed)
       IN  /\ n.result # "unknown"
           /\ ds' = [ds EXCEPT !.seed = n.seed, !.used_nums = n.used,
                               !.yielded = IF n.result = "some"
                                           THEN Append(@, n.index) ELSE @,
                               !.panicked = (n.result = "panic")]
    /\ UNCHANGED <<bloom, folded, elem, hist, sat, sparse, rs, yb>>

NextDistinct == DsNext \/ BdNext

SpecDistinct == InitDistinct /\ [][NextDistinct]_vars

\* The first occurrences of the values of seq, in order.
Firsts(seq) ==
    LET keep == { i \in DOMAIN seq : \A j \in 1 .. i - 1 : seq[j] # seq[i] }
        RECURSIVE From(_)
        From(i) ==
            IF i > Len(seq) THEN <<>>
            ELSE (IF i \in keep THEN <<seq[i]>> ELSE <<>>) \o From(i + 1)
    IN  From(1)

\* C6: the positions a distinct-sampling iterator has yielded are pairwise
\* distinct and are the first occurrences of values in the underlying
\* sequence, in order: all those among the positions it has consumed for
\* DistinctSampling, a leading part of them for BloomIndicesDistinctXXH3.
C6_DistinctSampling ==
    ds.pc \in {"bloom", "generic"} =>
        LET under == ModuloIndices(ds.M, elem)
        IN  /\ NoRepeat(ds.yielded)
            /\ Len(ds.yielded) <= Len(Firsts(under))
            /\ ds.yielded = SubSeq(Firsts(under), 1, Len(ds.yielded))
            /\ ds.pc = "generic" => ds.yielded = Firsts(SubSeq(under, 1, ds.seed))

\* The underlying sequence repeated a position, DistinctSampling skipped the
\* repeat and has yielded two distinct positions.
C6_Witness ==
    /\ ds.pc = "generic" /\ Len(ds.yielded) = 2 /\ ds.seed = 3
    /\ ~NoRepeat(ModuloIndices(ds.M, elem))

\* C11: BloomIndicesDistinctXXH3::next never indexes used_nums out of range:
\* every position it has drawn from its underlying generator is an index of
\* used_nums, and no call has aborted.
C11_UsedNumsInRange ==
    ds.pc = "bloom" =>
        /\ ~ds.panicked
        /\ \A seed \in 0 .. ds.seed - 1 :
              ModuloIndex(ds.M, elem, seed) \in DOMAIN ds.used_nums

(***************************************************************************)
(* SpecYield: YieldBits::yield_bits(iter, bits) over a finite input of     *)
(* words, driven by a for loop (it stops at the first None).               *)
(***************************************************************************)
\* The model's None for the field last: Option<usize>.
None == -1

\* YieldBits::next fetching when bits_used + bits reaches the word size
\* (`>=` for `>`).
YieldNextEager(y) ==
    LET fetch == y.bits_used + y.bits >= WordBits \/ y.last = None
        bits_used == IF y.bits_used + y.bits >= WordBits THEN 0 ELSE y.bits_used
    IN  IF fetch /\ y.pos >= Len(y.iter)
        THEN [y EXCEPT !.bits_used = bits_used, !.ended = TRUE]
        ELSE LET last == IF fetch THEN y.iter[y.pos + 1] ELSE y.last
                 result == BitAnd(Shr(last, bits_used), Shl(1, y.bits) - 1)
             IN  [y EXCEPT !.pos = IF fetch THEN @ + 1 ELSE @,
                           !.last = last,
                           !.bits_used = bits_used + y.bits,
                           !.yielded = Append(@, result)]

\* YieldBits::next on the iterator y: the iterator after the call, the group
\* it returned appended to yielded, or ended set when it returned None.
YieldNext(y) ==
    LET fetch == y.bits_used + y.bits > WordBits \/ y.last = None
        bits_used == IF y.bits_used + y.bits > WordBits THEN 0 ELSE y.bits_used
    IN  IF fetch /\ y.pos >= Len(y.iter)
        THEN [y EXCEPT !.bits_used = bits_used, !.ended = TRUE]
        ELSE LET last == IF fetch THEN y.iter[y.pos + 1] ELSE y.last
                 result == BitAnd(Shr(last, bits_used), Shl(1, y.bits) - 1)
             IN  [y EXCEPT !.pos = IF fetch THEN @ + 1 ELSE @,
                           !.last = last,
                           !.bits_used = bits_used + y.bits,
                           !.yielded = Append(@, result)]

Words == 0 .. (Pow2(WordBits) - 1)

InitYield ==
    /\ \E n \in 0 .. MaxWords, bits \in 1 .. WordBits - 1 :
          \E iter \in [1 .. n -> Words] :
              yb = [pc |-> "yield", iter |-> iter, pos |-> 0, bits |-> bits,
                    last |-> None, bits_used |-> 0, yielded |-> <<>>,
                    ended |-> FALSE]
    /\ bloom = Unused /\ folded = Unused /\ elem = Unused /\ hist = Unused
    /\ sat = Unused /\ sparse = Unused /\ rs = Unused /\ ds = Unused

\* The for loop calls next()
YbNext ==
    /\ yb.pc = "yield" /\ ~yb.ended
    /\ yb' = YieldNext(yb)
    /\ UNCHANGED <<bloom, folded, elem, hist, sat, sparse, rs, ds>>

NextYield == YbNext

SpecYield == InitYield /\ [][NextYield]_vars

\* C9: with g = floor(W / b) groups to a word, the i-th group yielded (from 0)
\* is bits [j*b, j*b + b) of word number i div g, j = i mod g; a word is
\* fetched only when the one before has given its g groups; the end is
\* signalled after exactly n * g groups.
C9_YieldBits ==
    yb.pc = "yield" =>
        LET g == WordBits \div yb.bits
            n == Len(yb.iter)
        IN  /\ \A i \in 0 .. Len(yb.yielded) - 1 :
                  yb.yielded[i + 1] =
                      (yb.iter[(i \div g) + 1] \div Pow2((i % g) * yb.bits))
                          % Pow2(yb.bits)
            /\ Len(yb.yielded) <= n * g
            /\ yb.pos = (Len(yb.yielded) + g - 1) \div g
            /\ yb.ended => Len(yb.yielded) = n * g

\* Two words cut into groups of 2 bits: 2 groups from each, the 5th bit of each
\* dropped, and the end signalled after the 4th group.
C9_Witness ==
    /\ yb.pc = "yield" /\ yb.bits = 2 /\ Len(yb.iter) = 2
    /\ yb.ended /\ Len(yb.yielded) = 2 * (WordBits \div 2)
    /\ yb.iter[1] >= Pow2(WordBits - 1)

====
